---- MODULE Spec2Model ----
(***************************************************************************)
(* ClawBotDataFeed (src/datafeed.py): the in-memory market table           *)
(* self.markets, written by the Gamma REST snapshot (fetch_politics_       *)
(* markets) and by the CLOB WebSocket stream (connect_clob_ws), and read   *)
(* by get_top_mispricing.                                                  *)
(*                                                                         *)
(* The feed runs on one asyncio event loop: code between two awaits runs   *)
(* without interleaving.  fetch_politics_markets has no await after        *)
(* `await resp.json()`, the body of the `async for` loop has none, and     *)
(* get_top_mispricing has none, so each of them is one atomic step here.   *)
(*                                                                         *)
(* MarketSnapshot objects are Python objects: the dict, and every list     *)
(* returned to a caller, hold references.  `heap` holds the objects and    *)
(* everything else holds addresses into it.  A list returned to a caller   *)
(* is not state of the feed: it is the value of get_top_mispricing (or     *)
(* Ingest(...).returned), a sequence of addresses.                         *)
(*                                                                         *)
(* Prices are fixed-point, in hundredths (PriceOne is 1.0).               *)
(***************************************************************************)
EXTENDS Integers, Sequences, FiniteSets, TLC

VARIABLES
  session,       \* self.session: "none" | "open" | "closed"
  wsOpen,        \* connect_clob_ws is inside its `async with websockets.connect`
  heap,          \* the MarketSnapshot objects alive, by address (1..Len(heap))
  markets,       \* self.markets: a dict, as its items in insertion order
  last_updated,  \* history: per market id, the logical time of its last mutation
  context,       \* `async with ClawBotDataFeed()`: "out" | "in"
  sent,          \* the messages connect_clob_ws has sent on its connection, in order
  streamTask     \* the connect_clob_ws call: "not_called" | "running" | "returned" |
                 \* "raised" | "cancelled"

\* the feed object, its table and its context
feedVars == <<session, wsOpen, heap, markets, last_updated, context>>
\* what the connection has sent and how its call ended, followed under SpecConn only
connVars == <<sent, streamTask>>
vars == <<session, wsOpen, heap, markets, last_updated, context, sent, streamTask>>

---------------------------------------------------------------------------
(* Bounds of the model *)

\* longest list of records in one Gamma response
MaxBatch == 2
\* largest top_n asked of get_top_mispricing
MaxTopN == 3

(* Program constants *)

\* `if m.get("volume24h", 0) > 1000000`
VolumeThreshold == 1000000
\* 1.0 in the fixed-point price unit
PriceOne == 100

MarketIds == {"A", "B"}
\* an id the stream may name and no snapshot ever carries
UnknownId == "Z"

---------------------------------------------------------------------------
(* JSON values as the feeds deliver them *)

Num(v) == [t |-> "num", v |-> v]
Str == [t |-> "str", v |-> 0]
Missing == [t |-> "missing", v |-> 0]
IsNum(x) == x.t = "num"

Abs(x) == IF x < 0 THEN -x ELSE x
Range(s) == {s[i] : i \in DOMAIN s}
Min(a, b) == IF a < b THEN a ELSE b
Max(a, b) == IF a > b THEN a ELSE b

\* prices the venue sends: 0.30 and 1.20 (the latter outside [0,1])
FeedPrices == {30, 120}
\* a 24h volume above the threshold
HighVolume == 2 * VolumeThreshold

---------------------------------------------------------------------------
(* The dict self.markets: items <<key, ref>> in insertion order *)

Keys(d) == {d[i].key : i \in DOMAIN d}
Lookup(d, k) == d[CHOOSE i \in DOMAIN d : d[i].key = k].ref
Values(d) == [i \in DOMAIN d |-> d[i].ref]

\* a list in place of the dict: every item is appended
DictSetAppending(d, k, r) == Append(d, [key |-> k, ref |-> r])

\* d[k] = r: an existing key keeps its place, a new key goes last
DictSet(d, k, r) ==
  IF k \in Keys(d)
  THEN [i \in DOMAIN d |-> IF d[i].key = k THEN [key |-> k, ref |-> r] ELSE d[i]]
  ELSE Append(d, [key |-> k, ref |-> r])

\* d.update(other)
RECURSIVE DictUpdate(_, _)
DictUpdate(d, other) ==
  IF other = <<>> THEN d
  ELSE DictUpdate(DictSet(d, Head(other).key, Head(other).ref), Tail(other))

\* {m.market_id: m for m in markets}, markets a list of addresses
RECURSIVE DictComprehension(_, _)
DictComprehension(refs, hp) ==
  IF refs = <<>> THEN <<>>
  ELSE LET front == DictComprehension(SubSeq(refs, 1, Len(refs) - 1), hp)
           last == refs[Len(refs)]
       IN DictSet(front, hp[last].market_id, last)

\* the table by value: the objects of the dict, in its order
Store(hp, mk) == [i \in DOMAIN mk |-> hp[mk[i].ref]]
Entry(hp, mk, k) == hp[Lookup(mk, k)]

---------------------------------------------------------------------------
(* fetch_politics_markets *)

\* a filter that lets the threshold itself through
RecordPassesInclusive(m) ==
  LET v == IF m.volume24h = Missing THEN Num(0) ELSE m.volume24h
  IN v.v >= VolumeThreshold

\* m.get("volume24h", 0) > 1000000
RecordPasses(m) ==
  LET v == IF m.volume24h = Missing THEN Num(0) ELSE m.volume24h
  IN v.v > VolumeThreshold

\* m["outcomes"][0]["price"], m["outcomes"][1]["price"] and their difference:
\* IndexError on a short list, KeyError on a missing price, TypeError on a string
RecordRaises(m) ==
  \/ Len(m.outcomes) < 2
  \/ ~IsNum(m.outcomes[1])
  \/ ~IsNum(m.outcomes[2])

MarketSnapshot(m) ==
  [market_id  |-> m.id,
   yes_price  |-> m.outcomes[1],
   no_price   |-> m.outcomes[2],
   spread     |-> Abs(m.outcomes[1].v - m.outcomes[2].v),
   volume_usd |-> m.volume24h.v,
   category   |-> m.category]

\* the for loop over data.get("markets", []): the list `markets`, or the raise
RECURSIVE ParseMarkets(_)
ParseMarkets(ms) ==
  IF ms = <<>> THEN [raised |-> FALSE, markets |-> <<>>]
  ELSE LET m == Head(ms)
           rest == ParseMarkets(Tail(ms))
       IN IF ~RecordPasses(m) THEN rest
          ELSE IF RecordRaises(m) \/ rest.raised THEN [raised |-> TRUE, markets |-> <<>>]
          ELSE [raised |-> FALSE, markets |-> <<MarketSnapshot(m)>> \o rest.markets]

\* setdefault in place of update: a known market keeps its object
UpsertIfAbsent(hp, mk, refs) ==
  LET new == DictComprehension(refs, hp)
  IN mk \o SelectSeq(new, LAMBDA it : it.key \notin Keys(mk))

\* assignment in place of update: the table becomes the latest list
UpsertReplacing(hp, mk, refs) == DictComprehension(refs, hp)

\* self.markets.update({m.market_id: m for m in markets})
Upsert(hp, mk, refs) == DictUpdate(mk, DictComprehension(refs, hp))

\* the rest of fetch_politics_markets, `p` being what the for loop gave
Apply(hp, mk, p) ==
  LET hp2 == hp \o p.markets
      refs == [i \in 1..Len(p.markets) |-> Len(hp) + i]
  IN IF p.raised
     THEN [raised |-> TRUE, heap |-> hp, markets |-> mk, returned |-> <<>>]
     ELSE [raised |-> FALSE, heap |-> hp2, markets |-> Upsert(hp2, mk, refs),
           returned |-> refs]

\* a body that stores each market as soon as it is built, inside the loop
RECURSIVE IngestIncremental(_, _, _)
IngestIncremental(hp, mk, ms) ==
  IF ms = <<>> THEN [raised |-> FALSE, heap |-> hp, markets |-> mk, returned |-> <<>>]
  ELSE LET m == Head(ms)
           hp2 == Append(hp, MarketSnapshot(m))
           rest == IngestIncremental(hp2, DictSet(mk, m.id, Len(hp2)), Tail(ms))
       IN IF ~RecordPasses(m) THEN IngestIncremental(hp, mk, Tail(ms))
          ELSE IF RecordRaises(m)
               THEN [raised |-> TRUE, heap |-> hp, markets |-> mk, returned |-> <<>>]
               ELSE [rest EXCEPT !.returned = <<Len(hp2)>> \o @]

\* the body of fetch_politics_markets on the response `ms`
Ingest(hp, mk, ms) == Apply(hp, mk, ParseMarkets(ms))

---------------------------------------------------------------------------
(* connect_clob_ws: the body of `async for message in ws` *)

\* a handler that files an update for an id it does not know as a new entry
HandleMessageInserting(hp, mk, msg) ==
  IF msg.type = "orderbook_update" /\ msg.market_id \notin Keys(mk)
  THEN [heap |-> Append(hp, [market_id |-> msg.market_id, yes_price |-> msg.yes_bid,
                             no_price |-> msg.no_ask, spread |-> 0, volume_usd |-> 0,
                             category |-> "politics"]),
        markets |-> DictSet(mk, msg.market_id, Len(hp) + 1),
        raised |-> FALSE, wrote |-> "both"]
  ELSE [heap |-> hp, markets |-> mk, raised |-> FALSE, wrote |-> "none"]

\* a handler that writes the new prices into every entry of the table
HandleMessageBroadcast(hp, mk, msg) ==
  IF msg.type = "orderbook_update" /\ msg.market_id \in Keys(mk)
  THEN [heap |-> [a \in DOMAIN hp |-> [hp[a] EXCEPT !.yes_price = msg.yes_bid,
                                                     !.no_price = msg.no_ask]],
        markets |-> mk, raised |-> FALSE, wrote |-> "both"]
  ELSE [heap |-> hp, markets |-> mk, raised |-> FALSE, wrote |-> "none"]

\* what one message does: the objects and the dict after it, whether the body
\* raised, and which price fields it assigned
HandleMessage(hp, mk, msg) ==
  LET same(w) == [heap |-> hp, markets |-> mk, raised |-> w, wrote |-> "none"]
  IN IF msg.type = "garbage" THEN same(TRUE)                 \* json.loads / data.get raise
     ELSE IF msg.type # "orderbook_update" THEN same(FALSE)
     ELSE IF msg.market_id \notin Keys(mk) THEN same(FALSE)  \* if market_id in self.markets
     ELSE IF msg.yes_bid = Missing THEN same(TRUE)            \* KeyError: 'yes_bid'
     ELSE LET a == Lookup(mk, msg.market_id)
              hp1 == [hp EXCEPT ![a].yes_price = msg.yes_bid]
              hp2 == [hp1 EXCEPT ![a].no_price = msg.no_ask]
          IN IF msg.no_ask = Missing
             THEN [heap |-> hp1, markets |-> mk, raised |-> TRUE,    \* KeyError: 'no_ask'
                   wrote |-> "yes"]
             ELSE [heap |-> hp2, markets |-> mk, raised |-> ~IsNum(msg.yes_bid),
                   wrote |-> "both"]
                  \* f"{data['yes_bid']:.3f}" raises ValueError on a string

---------------------------------------------------------------------------
(* get_top_mispricing *)

\* sorted(..., key=spread, reverse=True) is stable: among equal spreads the
\* earlier element of the input stays first
RECURSIVE InsertBySpread(_, _, _)
InsertBySpread(s, a, hp) ==
  IF s = <<>> THEN <<a>>
  ELSE IF hp[Head(s)].spread >= hp[a].spread
       THEN <<Head(s)>> \o InsertBySpread(Tail(s), a, hp)
       ELSE <<a>> \o s

RECURSIVE SortedBySpread(_, _)
SortedBySpread(refs, hp) ==
  IF refs = <<>> THEN <<>>
  ELSE InsertBySpread(SortedBySpread(SubSeq(refs, 1, Len(refs) - 1), hp),
                      refs[Len(refs)], hp)

\* s[:n]
Slice(s, n) ==
  IF n >= 0 THEN SubSeq(s, 1, Min(n, Len(s)))
  ELSE SubSeq(s, 1, Max(Len(s) + n, 0))

\* reverse=True forgotten: the smallest spreads first
get_top_mispricing_ascending(hp, mk, n) ==
  LET s == SortedBySpread(Values(mk), hp)
  IN Slice([i \in DOMAIN s |-> s[Len(s) + 1 - i]], n)

get_top_mispricing(hp, mk, n) == Slice(SortedBySpread(Values(mk), hp), n)

---------------------------------------------------------------------------
(* Garbage collection: the objects the dict no longer refers to are        *)
(* dropped and the rest renumbered in the dict's order.                    *)

Compact(hp, mk) ==
  [heap    |-> [i \in DOMAIN mk |-> hp[mk[i].ref]],
   markets |-> [i \in DOMAIN mk |-> [key |-> mk[i].key, ref |-> i]]]

Deref(hp, refs) == [i \in DOMAIN refs |-> hp[refs[i]]]

---------------------------------------------------------------------------
(* History variables *)

\* ranks 1..k in place of the logical times, their order kept
Dense(f) ==
  [k \in DOMAIN f |-> Cardinality({f[j] : j \in {i \in DOMAIN f : f[i] < f[k]}}) + 1]

\* the ids in `ids` are mutated now
Stamp(lu, ids) ==
  LET top == Cardinality(DOMAIN lu) + 1
  IN Dense([k \in (DOMAIN lu) \cup ids |-> IF k \in ids THEN top ELSE lu[k]])

---------------------------------------------------------------------------
(* What the venue may send *)

PriceValues == {Num(p) : p \in FeedPrices} \cup {Str, Missing}

Messages ==
  [type : {"orderbook_update"}, market_id : MarketIds \cup {UnknownId},
   yes_bid : PriceValues, no_ask : PriceValues]
  \cup [type : {"trade"}, market_id : MarketIds, yes_bid : {Num(120)}, no_ask : {Num(30)}]
  \cup {[type |-> "garbage", market_id |-> UnknownId, yes_bid |-> Missing, no_ask |-> Missing]}

WellFormedRecords ==
  {[id |-> i, outcomes |-> <<Num(y), Num(n)>>, volume24h |-> Num(HighVolume),
    category |-> "politics"] : i \in MarketIds, y \in FeedPrices, n \in FeedPrices}
  \cup {[id |-> "A", outcomes |-> <<Num(120), Num(30)>>, volume24h |-> Num(VolumeThreshold),
         category |-> "politics"]}

DefectiveRecords ==
  {[id |-> "A", outcomes |-> <<Num(30)>>, volume24h |-> Num(HighVolume),
    category |-> "politics"],
   [id |-> "A", outcomes |-> <<Str, Num(30)>>, volume24h |-> Num(HighVolume),
    category |-> "politics"],
   [id |-> "B", outcomes |-> <<Num(30), Num(120)>>, volume24h |-> Missing,
    category |-> "politics"],
   [id |-> "B", outcomes |-> <<>>, volume24h |-> Num(VolumeThreshold),
    category |-> "politics"]}

RawRecords == WellFormedRecords \cup DefectiveRecords
Batches == UNION {[1..n -> RawRecords] : n \in 0..MaxBatch}

\* what the for loop can give on them
Parsed == {ParseMarkets(ms) : ms \in Batches}

TopNs == (-1)..MaxTopN

---------------------------------------------------------------------------
(* The state after ClawBotDataFeed() *)

NoStamps == [k \in {} |-> 0]

Init ==
  /\ session = "none"
  /\ wsOpen = FALSE
  /\ heap = <<>>
  /\ markets = <<>>
  /\ last_updated = NoStamps
  /\ sent = <<>>
  /\ streamTask = "not_called"
  /\ context = "out"

---------------------------------------------------------------------------
(* Operations *)

\* `if self.session: await self.session.close()`
SessionAfterExit(se) == IF se = "open" THEN "closed" ELSE se

\* __aenter__
EnterFeed ==
  /\ context = "out"
  /\ context' = "in"
  /\ session' = "open"
  /\ UNCHANGED <<wsOpen, heap, markets, last_updated>>

\* __aexit__
ExitFeed ==
  /\ context = "in"
  /\ context' = "out"
  /\ session' = SessionAfterExit(session)
  /\ UNCHANGED <<wsOpen, heap, markets, last_updated>>

\* fetch_politics_markets, `r` being what its body gives on the venue's answer
FetchGiving(r) ==
  LET c == Compact(r.heap, r.markets)
      ids == {r.heap[a].market_id : a \in Range(r.returned)}
  IN /\ heap' = c.heap
     /\ markets' = c.markets
     /\ last_updated' = Stamp(last_updated, ids)
     /\ UNCHANGED <<session, wsOpen, context>>

\* a loop whose connection nothing closes when a turn raises
OpenAfterTurnLeft(raised) == TRUE

\* whether the connection is still open after a turn of the loop: a raise
\* leaves the `async with websockets.connect(...)`, which closes it
OpenAfterTurn(raised) == ~raised

\* one turn of `async for message in ws`, on the message `msg`
Turn(msg) ==
  LET r == HandleMessage(heap, markets, msg)
  IN /\ heap' = r.heap
     /\ markets' = r.markets
     /\ wsOpen' = OpenAfterTurn(r.raised)
     /\ last_updated' = IF r.wrote = "none" THEN last_updated
                        ELSE Stamp(last_updated, {msg.market_id})
     /\ UNCHANGED <<session, context>>

\* __aenter__
Enter == EnterFeed /\ UNCHANGED connVars

\* __aexit__
Exit == ExitFeed /\ UNCHANGED connVars

\* fetch_politics_markets, the venue answering `ms`
Fetch ==
  /\ session = "open"
  /\ \E p \in Parsed : FetchGiving(Apply(heap, markets, p))
  /\ UNCHANGED connVars

\* connect_clob_ws up to the subscribe message
Connect ==
  /\ ~wsOpen
  /\ wsOpen' = TRUE
  /\ UNCHANGED <<session, heap, markets, last_updated, context>>
  /\ UNCHANGED connVars

\* one turn of `async for message in ws`; a raise leaves the `async with`
OnMessage ==
  /\ wsOpen
  /\ \E msg \in Messages : Turn(msg)
  /\ UNCHANGED connVars

\* the peer closes the stream: the loop ends
PeerClose ==
  /\ wsOpen
  /\ wsOpen' = FALSE
  /\ UNCHANGED <<session, heap, markets, last_updated, context>>
  /\ UNCHANGED connVars

\* get_top_mispricing(top_n): a list of objects of the dict goes to the caller,
\* the feed is as it was
Query ==
  \E n \in TopNs :
    /\ \A a \in Range(get_top_mispricing(heap, markets, n)) : a \in Range(Values(markets))
    /\ UNCHANGED vars

Next ==
  \/ Enter
  \/ Exit
  \/ Fetch
  \/ Connect
  \/ OnMessage
  \/ PeerClose
  \/ Query

Spec == Init /\ [][Next]_vars

---------------------------------------------------------------------------
(* The snapshot path alone, on the venue's raw answers *)

FetchRaw ==
  /\ session = "open"
  /\ \E ms \in Batches : FetchGiving(Ingest(heap, markets, ms))
  /\ UNCHANGED connVars

NextIngest ==
  \/ Enter
  \/ Exit
  \/ FetchRaw
  \/ Query

SpecIngest == Init /\ [][NextIngest]_vars

---------------------------------------------------------------------------
(* The life of the stream connection, on a smaller choice of venue data *)

\* f"market/{market_id}"
Topic(k) == <<"market", k>>

\* a subscription to the first market of the table only
subscribe_msg_first(mk) ==
  [type |-> "subscribe",
   topics |-> IF mk = <<>> THEN <<>> ELSE <<Topic(mk[1].key)>>]

\* subscribe_msg: one topic per key of self.markets, in the dict's order
subscribe_msg(mk) ==
  [type |-> "subscribe", topics |-> [i \in DOMAIN mk |-> Topic(mk[i].key)]]

ConnRecords ==
  {m \in RawRecords : m.outcomes = <<Num(30), Num(120)>> \/ m.outcomes = <<Num(30)>>}
ConnBatches == UNION {[1..n -> ConnRecords] : n \in 0..MaxBatch}
ConnParsed == {ParseMarkets(ms) : ms \in ConnBatches}
ConnMessages ==
  {msg \in Messages : msg.yes_bid # Str /\ msg.no_ask \in {Num(30), Missing}}

\* fetch_politics_markets
FetchConn ==
  /\ session = "open"
  /\ \E p \in ConnParsed : FetchGiving(Apply(heap, markets, p))
  /\ UNCHANGED connVars

\* connect_clob_ws up to the loop: the connection opens and the subscribe
\* message, built from the keys of self.markets, is sent
connect_clob_ws ==
  /\ ~wsOpen
  /\ wsOpen' = TRUE
  /\ sent' = <<subscribe_msg(markets)>>
  /\ streamTask' = "running"
  /\ UNCHANGED <<session, heap, markets, last_updated, context>>

\* websockets.connect or ws.send raises: the call ends, nothing was sent
ConnectFails ==
  /\ ~wsOpen
  /\ streamTask' = "raised"
  /\ sent' = <<>>
  /\ UNCHANGED <<session, wsOpen, heap, markets, last_updated, context>>

\* one turn of `async for message in ws`; a raise ends the call
StreamMessage ==
  /\ wsOpen
  /\ \E msg \in ConnMessages :
       LET raised == HandleMessage(heap, markets, msg).raised
       IN /\ Turn(msg)
          /\ streamTask' = IF raised THEN "raised" ELSE "running"
          /\ sent' = IF raised THEN <<>> ELSE sent

\* the peer closes the connection: `async for` ends and the call returns, or
\* the connection breaks and `async for` raises ConnectionClosedError
StreamEnds ==
  /\ wsOpen
  /\ wsOpen' = FALSE
  /\ \E how \in {"returned", "raised"} : streamTask' = how
  /\ sent' = <<>>
  /\ UNCHANGED <<session, heap, markets, last_updated, context>>

\* the caller cancels the task of connect_clob_ws: CancelledError leaves the
\* `async with`
Cancel ==
  /\ wsOpen
  /\ wsOpen' = FALSE
  /\ streamTask' = "cancelled"
  /\ sent' = <<>>
  /\ UNCHANGED <<session, heap, markets, last_updated, context>>

NextConn ==
  \/ Enter
  \/ Exit
  \/ FetchConn
  \/ connect_clob_ws
  \/ ConnectFails
  \/ StreamMessage
  \/ StreamEnds
  \/ Cancel
  \/ Query

\* a message that has arrived is handed to the loop by the event loop
SpecConn == Init /\ [][NextConn]_vars /\ WF_vars(StreamMessage)

---------------------------------------------------------------------------
(* Properties *)

Entries == Range(Store(heap, markets))
NumericPrices(e) == IsNum(e.yes_price) /\ IsNum(e.no_price)
\* the entry's prices are not the ones its spread was computed from: a stream
\* update has written to it since its snapshot
StreamTouched(e) ==
  ~NumericPrices(e) \/ e.spread # Abs(e.yes_price.v - e.no_price.v)
Updates == {msg \in Messages : msg.type = "orderbook_update"}
Nonneg == 0..MaxTopN

\* C1: in every reachable state every stored entry (with numeric prices) has
\* spread = abs(yes_price - no_price).  The code sets the spread in
\* fetch_politics_markets only; the stream branch leaves it stale.
C1_SpreadIsAbsDifference ==
  \A e \in Entries :
    NumericPrices(e) => e.spread = Abs(e.yes_price.v - e.no_price.v)

\* C2: a stream message that is not an orderbook update, or that names a
\* market id the dict does not hold, leaves the dict and every object as they
\* were: same keys, same size, no entry for the unknown id.
C2_UnknownOrOtherMessageIsDropped ==
  wsOpen =>
    \A msg \in Messages :
      (msg.type # "orderbook_update" \/ msg.market_id \notin Keys(markets)) =>
        LET r == HandleMessage(heap, markets, msg)
        IN /\ r.markets = markets
           /\ r.heap = heap
           /\ Keys(r.markets) = Keys(markets)
           /\ Len(r.markets) = Len(markets)
           /\ msg.market_id \in Keys(r.markets) => msg.market_id \in Keys(markets)

\* the stream is open on a table that knows A only, and has already updated it
C2_Witness ==
  /\ wsOpen
  /\ Keys(markets) = {"A"}
  /\ StreamTouched(Entry(heap, markets, "A"))

\* C3: a stream update for a known market id leaves the dict as it is, leaves
\* every other object identical, and in the object it names changes nothing
\* but yes_price and no_price: market_id, volume_usd and category stay.
C3_UpdateTouchesOnlyItsEntry ==
  wsOpen =>
    \A msg \in Updates :
      msg.market_id \in Keys(markets) =>
        LET r == HandleMessage(heap, markets, msg)
            a == Lookup(markets, msg.market_id)
        IN /\ r.markets = markets
           /\ DOMAIN r.heap = DOMAIN heap
           /\ \A b \in DOMAIN heap : b # a => r.heap[b] = heap[b]
           /\ r.heap[a].market_id = heap[a].market_id
           /\ r.heap[a].volume_usd = heap[a].volume_usd
           /\ r.heap[a].category = heap[a].category

\* the stream is open on a table of two markets whose prices differ, and has
\* updated one of them
C3_Witness ==
  /\ wsOpen
  /\ Len(markets) = 2
  /\ \E e \in Entries : StreamTouched(e)
  /\ \E e \in Entries : ~StreamTouched(e) /\ e.spread # 0

\* C4: get_top_mispricing(n) is sorted by descending spread, and of two
\* returned entries with equal spread the one mutated later comes first.
\* The code has no last_updated: sorted() is stable, so equal spreads come in
\* the dict's insertion order.
C4_SortedNewestFirstOnTies ==
  \A n \in Nonneg :
    LET res == Deref(heap, get_top_mispricing(heap, markets, n))
    IN \A i, j \in DOMAIN res :
         i < j =>
           /\ res[i].spread >= res[j].spread
           /\ res[i].spread = res[j].spread =>
                last_updated[res[i].market_id] >= last_updated[res[j].market_id]

\* C5: for every n >= 0 get_top_mispricing(n) returns min(n, size) distinct
\* objects of the dict, none with a smaller spread than one left out.
C5_TopNIsTheLargest ==
  \A n \in Nonneg :
    LET res == get_top_mispricing(heap, markets, n)
        all == Range(Values(markets))
    IN /\ Len(res) = Min(n, Len(markets))
       /\ Range(res) \subseteq all
       /\ Cardinality(Range(res)) = Len(res)
       /\ \A a \in Range(res) : \A b \in all \ Range(res) :
            heap[a].spread >= heap[b].spread

\* two markets of different spreads, the larger one inserted last
C5_Witness ==
  /\ Len(markets) = 2
  /\ heap[markets[1].ref].spread < heap[markets[2].ref].spread

\* C6: ingesting the same response twice in a row leaves the table (keys,
\* order, every field) as ingesting it once does.
C6_IngestIdempotent ==
  session = "open" =>
    \A p \in Parsed :
      LET r1 == Apply(heap, markets, p)
          c1 == Compact(r1.heap, r1.markets)
          r2 == Apply(c1.heap, c1.markets, p)
      IN /\ r2.raised = r1.raised
         /\ Store(r2.heap, r2.markets) = Store(r1.heap, r1.markets)

\* a table filled by one ingest, on which a second can run
C6_Witness ==
  /\ session = "open"
  /\ Len(markets) = 2
  /\ \A e \in Entries : ~StreamTouched(e)

\* C7: after a successful ingest every market of the ingested list (distinct
\* ids) is stored with the fields of its record, whatever the stream wrote
\* before; the other entries are the objects they were.
C7_BulkWriteWins ==
  session = "open" =>
    \A p \in Parsed :
      LET r == Apply(heap, markets, p)
          ids == {p.markets[i].market_id : i \in DOMAIN p.markets}
      IN (~p.raised /\ Cardinality(ids) = Len(p.markets)) =>
           /\ Keys(r.markets) = Keys(markets) \cup ids
           /\ \A i \in DOMAIN p.markets :
                Entry(r.heap, r.markets, p.markets[i].market_id) = p.markets[i]
           /\ \A k \in Keys(markets) \ ids :
                /\ Lookup(r.markets, k) = Lookup(markets, k)
                /\ Entry(r.heap, r.markets, k) = Entry(heap, markets, k)

\* an ingest can run on a table one of whose markets the stream has updated
C7_Witness ==
  /\ session = "open"
  /\ Len(markets) = 2
  /\ \E e \in Entries : StreamTouched(e)
  /\ \E e \in Entries : ~StreamTouched(e)

\* C8: every stored entry has yes_price and no_price in [0,1] and a
\* non-negative spread.  Neither feed's values are validated.
C8_PricesInUnitInterval ==
  \A e \in Entries :
    /\ NumericPrices(e)
    /\ 0 <= e.yes_price.v /\ e.yes_price.v <= PriceOne
    /\ 0 <= e.no_price.v /\ e.no_price.v <= PriceOne
    /\ e.spread >= 0

\* C9: the list get_top_mispricing returned keeps the field values it had
\* when it was returned, whatever stream update or snapshot ingest comes next.
\* The list holds the dict's own objects, which the stream branch writes to.
\* Stated in the state the query runs in, over every operation that can follow.
C9_ReturnedListIsPointInTime ==
  \A n \in Nonneg :
    LET res == get_top_mispricing(heap, markets, n)
    IN /\ wsOpen =>
            \A msg \in Messages :
              Deref(HandleMessage(heap, markets, msg).heap, res) = Deref(heap, res)
       /\ session = "open" =>
            \A p \in Parsed :
              Deref(Apply(heap, markets, p).heap, res) = Deref(heap, res)

\* C10: every operation takes effect as a whole: after a stream message an
\* entry has either the yes_price and no_price it had or both prices of the
\* message, and an ingest stores every record of its list or none.
\* Stated in the state an operation starts in, over every input it can get.
C10_OperationsTakeEffectWhole ==
  /\ wsOpen =>
       \A msg \in Messages : \A k \in Keys(markets) :
         LET r == HandleMessage(heap, markets, msg)
             old == Entry(heap, markets, k)
             new == Entry(r.heap, r.markets, k)
         IN \/ new.yes_price = old.yes_price /\ new.no_price = old.no_price
            \/ k = msg.market_id /\ new.yes_price = msg.yes_bid /\ new.no_price = msg.no_ask
  /\ session = "open" =>
       \A p \in Parsed :
         LET r == Apply(heap, markets, p)
             ids == {p.markets[i].market_id : i \in DOMAIN p.markets}
         IN IF p.raised
            THEN r.markets = markets /\ r.heap = heap
            ELSE \A k \in ids :
                   \E i \in DOMAIN p.markets : Entry(r.heap, r.markets, k) = p.markets[i]

\* an orderbook update one of whose price fields is missing or not a number
Malformed(msg) ==
  msg.type = "orderbook_update" /\ (~IsNum(msg.yes_bid) \/ ~IsNum(msg.no_ask))

\* C11: a malformed orderbook update for a market the dict holds is dropped on
\* its own: dict and objects stay as they were, no field is written, and the
\* loop goes on to the next message.  The code writes yes_price before it
\* reads no_ask, formats yes_bid after both writes, and catches nothing.
C11_MalformedEventIsDropped ==
  wsOpen =>
    \A msg \in Updates :
      (msg.market_id \in Keys(markets) /\ Malformed(msg)) =>
        LET r == HandleMessage(heap, markets, msg)
        IN /\ r.heap = heap
           /\ r.markets = markets
           /\ OpenAfterTurn(r.raised)

\* a record of the response with fewer than two outcomes
ShortOutcomes(m) == Len(m.outcomes) < 2

\* C12: a record with fewer than two outcome prices is skipped and the rest of
\* the batch is ingested: on a response whose records are well formed or short,
\* the call does not raise and returns, and stores, the market of every
\* well-formed record that passes the volume filter.  The code indexes
\* outcomes[1] of every record that passes the filter and catches nothing.
C12_ShortRecordIsSkipped ==
  session = "open" =>
    \A ms \in Batches :
      ( /\ \A i \in DOMAIN ms : ms[i] \in WellFormedRecords \/ ShortOutcomes(ms[i])
        /\ \E i \in DOMAIN ms : ShortOutcomes(ms[i]) ) =>
        LET r == Ingest(heap, markets, ms)
            good == SelectSeq(ms, LAMBDA m : RecordPasses(m) /\ ~ShortOutcomes(m))
        IN /\ ~r.raised
           /\ Deref(r.heap, r.returned) = [i \in DOMAIN good |-> MarketSnapshot(good[i])]
           /\ \A i \in DOMAIN good : good[i].id \in Keys(r.markets)

\* C13: a call of fetch_politics_markets that raises while it builds the list
\* leaves dict and objects exactly as they were: no market of the failed
\* response is inserted or overwritten, and nothing is returned.
C13_FailedIngestChangesNothing ==
  session = "open" =>
    \A ms \in Batches :
      LET r == Ingest(heap, markets, ms)
      IN r.raised =>
           /\ r.markets = markets
           /\ r.heap = heap
           /\ r.returned = <<>>

\* a response can fail on its second record after a first one that passed, on
\* a table that already holds the first one's market
C13_Witness ==
  /\ session = "open"
  /\ \E ms \in Batches :
       /\ Len(ms) = 2
       /\ ms[1] \in WellFormedRecords /\ RecordPasses(ms[1])
       /\ ms[1].id \in Keys(markets)
       /\ Entry(heap, markets, ms[1].id) # MarketSnapshot(ms[1])
       /\ RecordPasses(ms[2]) /\ RecordRaises(ms[2])
       /\ Ingest(heap, markets, ms).raised

\* C14: the updates of a market are applied in the order they arrive and the
\* last one wins: after two updates addressed to a market the dict holds, with
\* no ingest in between, the entry has the prices of the second, or, the
\* second being malformed and dropped, those of the first.  The half update of
\* C11 leaves the yes_price of the second beside the no_price of the first.
C14_LastWriterWins ==
  wsOpen =>
    \A k \in Keys(markets) : \A m1, m2 \in Updates :
      (m1.market_id = k /\ m2.market_id = k /\ ~Malformed(m1)) =>
        LET r1 == HandleMessage(heap, markets, m1)
            r2 == HandleMessage(r1.heap, r1.markets, m2)
            e == Entry(r2.heap, r2.markets, k)
        IN \/ e.yes_price = m2.yes_bid /\ e.no_price = m2.no_ask
           \/ Malformed(m2) /\ e.yes_price = m1.yes_bid /\ e.no_price = m1.no_ask

CompleteUpdates == {msg \in Updates : ~Malformed(msg)}

\* every market of the table is among the objects a ranked query over the
\* whole table returns, and is written by the next complete update addressed
\* to it
EveryEntryIsServed ==
  \A k \in Keys(markets) :
    /\ Lookup(markets, k) \in Range(get_top_mispricing(heap, markets, Len(markets)))
    /\ wsOpen =>
         \A msg \in CompleteUpdates :
           msg.market_id = k =>
             LET u == HandleMessage(heap, markets, msg)
             IN /\ Entry(u.heap, u.markets, k).yes_price = msg.yes_bid
                /\ Entry(u.heap, u.markets, k).no_price = msg.no_ask

\* a market absent from the ingested list keeps its object and field values
OrphanKeepsItsState ==
  session = "open" =>
    \A p \in Parsed :
      LET r == Apply(heap, markets, p)
      IN \A k \in Keys(markets) :
           /\ k \in Keys(r.markets)
           /\ (\A i \in DOMAIN p.markets : p.markets[i].market_id # k) =>
                /\ Lookup(r.markets, k) = Lookup(markets, k)
                /\ Entry(r.heap, r.markets, k) = Entry(heap, markets, k)

\* C15: no entry is ever deleted.  Every step keeps every key of the table, so
\* the key set only grows; a market absent from the latest ingested list keeps
\* its last state, is still returned by a ranked query over the whole table
\* and is still written by a complete update addressed to it.
C15_EntriesAreNeverDeleted ==
  /\ [](EveryEntryIsServed /\ OrphanKeepsItsState)
  /\ [][\A k \in Keys(markets) : k \in Keys(markets')]_vars

\* an ingest that does not list a market the stream has updated can run
C15_Witness ==
  /\ session = "open"
  /\ Len(markets) = 2
  /\ \E k \in Keys(markets) :
       /\ StreamTouched(Entry(heap, markets, k))
       /\ \E p \in Parsed :
            /\ ~p.raised /\ p.markets # <<>>
            /\ \A i \in DOMAIN p.markets : p.markets[i].market_id # k

\* the record states a 24h volume and it is strictly above the threshold
AboveThreshold(m) == m.volume24h # Missing /\ m.volume24h.v > VolumeThreshold

\* C20: a call of fetch_politics_markets that does not raise returns the
\* markets of exactly the records whose 24h volume is strictly above 1,000,000,
\* in order, and stores exactly those (the last one of each id); a record at or
\* below the threshold, or with no volume, creates no entry and leaves an
\* entry of the same id the object it was.
C20_OnlyAboveThresholdIsIngested ==
  session = "open" =>
    \A ms \in Batches :
      LET r == Ingest(heap, markets, ms)
          above == SelectSeq(ms, AboveThreshold)
          ids == {above[i].id : i \in DOMAIN above}
      IN ~r.raised =>
           /\ Deref(r.heap, r.returned) = [i \in DOMAIN above |-> MarketSnapshot(above[i])]
           /\ Keys(r.markets) = Keys(markets) \cup ids
           /\ \A i \in DOMAIN above :
                (\A j \in DOMAIN above : j > i => above[j].id # above[i].id) =>
                  Entry(r.heap, r.markets, above[i].id) = MarketSnapshot(above[i])
           /\ \A k \in Keys(markets) \ ids :
                /\ Lookup(r.markets, k) = Lookup(markets, k)
                /\ Entry(r.heap, r.markets, k) = Entry(heap, markets, k)

\* a response can hold a record exactly at the threshold for a market the
\* table stores with other prices, beside a record above it
C20_Witness ==
  /\ session = "open"
  /\ \E ms \in Batches :
       /\ Len(ms) = 2
       /\ ~Ingest(heap, markets, ms).raised
       /\ AboveThreshold(ms[1])
       /\ ms[2].volume24h = Num(VolumeThreshold)
       /\ Len(ms[2].outcomes) = 2
       /\ ms[2].id \in Keys(markets)
       /\ ms[2].id # ms[1].id
       /\ Entry(heap, markets, ms[2].id).yes_price # ms[2].outcomes[1]

\* the ids the messages sent on the connection have subscribed to
Subscribed == {t[2] : t \in UNION {Range(sent[i].topics) : i \in DOMAIN sent}}

\* C16: every connection sends exactly one subscribe message, before any
\* update of that connection is applied, and it names exactly the ids the
\* table holds when the connection is made: the step that opens a connection
\* leaves one message sent, a subscribe with one topic per key of the table
\* of that moment (a later connection, the table of its own moment); while the
\* connection stays open nothing more is sent; and whenever the loop can take
\* a message, that one subscribe message has been sent.
C16_OneSubscribePerConnection ==
  [][ /\ (~wsOpen /\ wsOpen') =>
           /\ Len(sent') = 1
           /\ sent'[1].type = "subscribe"
           /\ Len(sent'[1].topics) = Len(markets)
           /\ Range(sent'[1].topics) = {Topic(k) : k \in Keys(markets)}
           /\ markets' = markets /\ heap' = heap
      /\ (wsOpen /\ wsOpen') => sent' = sent
      /\ wsOpen' => Len(sent') = 1
    ]_vars

\* a connection made on a table of two markets, one of which a stream update
\* has written to
C16_Witness ==
  /\ wsOpen
  /\ Subscribed = MarketIds
  /\ \E e \in Entries : StreamTouched(e)

\* every market of the table is named in the subscription of the open connection
SubscriptionCovers == Keys(markets) \subseteq Subscribed

\* C17: when a fetch adds markets while a connection is open, the
\* subscription is brought up to date, by a new subscribe message or by a new
\* connection: an open connection whose subscription misses a market of the
\* table leads to one that names them all (or to the connection's end, which
\* C18 is about).  The code sends one subscribe message per connection and
\* fetch_politics_markets does not touch the connection.
C17_SubscriptionFollowsDiscovery ==
  (wsOpen /\ ~SubscriptionCovers) ~> (~wsOpen \/ SubscriptionCovers)

\* C18: the stream ends only when it is shut down: a call of connect_clob_ws
\* never returns and never raises, whatever the peer or the network does; it
\* ends by cancellation only.  The code has no loop around its connection.
C18_StreamEndsOnlyOnShutdown ==
  streamTask \in {"not_called", "running", "cancelled"}

\* C19: whatever way the stream loop ends (the peer closes, a turn raises, the
\* task is cancelled) its connection is closed, and whenever the context of
\* the feed has been left the session it opened is closed.
C19_ResourcesAreReleased ==
  /\ streamTask \in {"returned", "raised", "cancelled"} => ~wsOpen
  /\ context = "out" => session # "open"

\* a stream call has ended by a raise, a turn that raised has left its
\* yes_bid beside the no_price of the snapshot, and the context has been left
C19_Witness ==
  /\ streamTask = "raised"
  /\ ~wsOpen
  /\ context = "out" /\ session = "closed"
  /\ \E e \in Entries :
       /\ NumericPrices(e)
       /\ e.yes_price = e.no_price
       /\ \A msg \in ConnMessages : msg.no_ask # e.no_price

====
